---- MODULE Spec2Model ----
(***************************************************************************)
(* Model of rotate-skiplist.h: class ThreadState, the registry of          *)
(* per-thread state objects ("slots") chained into a global linked list.   *)
(*                                                                         *)
(* A slot is a heap object with the fields id, owned and next_p; heap      *)
(* addresses are 1..Len(id) and Null is the null pointer.  The operations  *)
(* are ThreadState::Init, ThreadState::GetCurrentThreadState (one action   *)
(* per statement, so that threads interleave between the atomic           *)
(* test_and_set and the other steps) and the thread-exit callback          *)
(* ThreadState::ClearOwnedFlag that pthread runs on the value a thread     *)
(* registered under thread_state_key.                                      *)
(***************************************************************************)
EXTENDS Naturals, Integers, Sequences, FiniteSets, TLC

\* ------------------------------------------------------------------ bounds
\* Number of OS threads that may be started (and restarted after exit).
NumThreads == 2
\* Longest slot list present when the model starts.
MaxInitSlots == 2
\* Most slots the heap ever holds (caps the allocations of line 170).
MaxHeap == 2

Threads == 1..NumThreads
Null == 0
\* ret[t] while no call of thread t has returned yet.
NoValue == -1
\* A field of a slot whose memory was allocated and never written: its value
\* is indeterminate (any bit pattern) until the first write.
Indeterminate == -2
\* The two states of a std::atomic_flag.
Set == 1
Clear == 0

VARIABLES
  inited,               \* static bool inited
  proc,                 \* the process: "running", "exited", "aborted", "crashed"
  next_id,              \* static std::atomic<unsigned int> next_id
  thread_state_head_p,  \* static ThreadState *thread_state_head_p
  id,                   \* id[a]: field id of the slot at address a
  owned,                \* owned[a]: field owned (atomic_flag) of slot a
  next_p,               \* next_p[a]: field next_p of slot a
  gc_p,                 \* gc_p[a]: field gc_p of slot a
  live,                 \* live[t]: thread t has started and not exited
  thread_state_key,     \* thread_state_key[t]: pthread_getspecific value of t
  pc,                   \* pc[t]: statement of the member function t is in
  thread_state_p,       \* thread_state_p[t]: the local of GetCurrentThreadState
  ret,                  \* ret[t]: value the last finished call of t returned
  released,             \* history: the slot ClearOwnedFlag was last run on
  peak                  \* history: most threads alive at the same time

vars == <<inited, proc, next_id, thread_state_head_p, id, owned, next_p, gc_p,
          live, thread_state_key, pc, thread_state_p, ret, released, peak>>

globals == <<inited, proc, next_id, thread_state_head_p>>
heap == <<id, owned, next_p, gc_p>>

\* ----------------------------------------------------------------- helpers
Heap == 1..Len(id)

Max(a, b) == IF a >= b THEN a ELSE b

\* The slots reached from pointer a by following next_p (at most n links).
RECURSIVE Chain(_, _)
Chain(a, n) ==
  IF a = Null \/ a \notin Heap \/ n = 0 THEN <<>>
  ELSE <<a>> \o Chain(next_p[a], n - 1)

\* The slot list in list order, from thread_state_head_p.
SlotList == Chain(thread_state_head_p, Len(id))

InList == {SlotList[i] : i \in 1..Len(SlotList)}

NumLive == Cardinality({t \in Threads : live[t]})

InCall(t) == pc[t] # "idle"

\* ------------------------------------------------------------------- Init
\* The registry before ThreadState::Init() has run: zero-initialised statics.
InitStatics ==
  /\ inited = FALSE
  /\ next_id = 0
  /\ thread_state_head_p = Null
  /\ id = <<>> /\ owned = <<>> /\ next_p = <<>> /\ gc_p = <<>>
  /\ live = [t \in Threads |-> FALSE]
  /\ thread_state_key = [t \in Threads |-> Null]
  /\ peak = 0

\* An initialised registry whose list holds n slots (slot a was the a-th one
\* created: id a-1, pushed in front of slot a-1), some of them bound to live
\* threads; a slot is owned exactly when a live thread is bound to it.
\* n = 0 is the registry as ThreadState::Init() leaves it.  The header itself
\* never links a slot (thread_state_head_p is a public static that only Init
\* writes), so the lists with n > 0 are the ones the class comment describes
\* and the walk of lines 154-166 is written for.
InitRegistry ==
  \E n \in 0..MaxInitSlots :
    \E key \in [Threads -> 0..n] :
      /\ \A t, u \in Threads : (t # u /\ key[t] # Null) => key[t] # key[u]
      /\ inited = TRUE
      /\ next_id = n
      /\ thread_state_head_p = n
      /\ id = [a \in 1..n |-> a - 1]
      /\ next_p = [a \in 1..n |-> a - 1]
      /\ gc_p = [a \in 1..n |-> Indeterminate]
      /\ owned = [a \in 1..n |-> IF \E t \in Threads : key[t] = a THEN Set ELSE Clear]
      /\ thread_state_key = key
      /\ live = [t \in Threads |-> key[t] # Null]
      /\ peak = Max(n, Cardinality({t \in Threads : key[t] # Null}))

Init ==
  /\ InitStatics \/ InitRegistry
  /\ proc = "running"
  /\ pc = [t \in Threads |-> "idle"]
  /\ thread_state_p = [t \in Threads |-> Null]
  /\ ret = [t \in Threads |-> IF thread_state_key[t] # Null
                               THEN thread_state_key[t] ELSE NoValue]
  /\ released = Null

\* ------------------------------------------------------ ThreadState::Init
\* assert(inited == false) passes, pthread_key_create succeeds.
ThreadState_Init ==
  /\ proc = "running"
  /\ inited = FALSE
  /\ next_id' = 0
  /\ thread_state_head_p' = Null
  /\ inited' = TRUE
  /\ UNCHANGED <<proc, heap, live, thread_state_key, pc, thread_state_p, ret,
                 released, peak>>

\* assert(inited == false) passes, pthread_key_create fails: perror, exit(1).
ThreadState_Init_KeyCreateFails ==
  /\ proc = "running"
  /\ inited = FALSE
  /\ next_id' = 0
  /\ thread_state_head_p' = Null
  /\ proc' = "exited"
  /\ UNCHANGED <<inited, heap, live, thread_state_key, pc, thread_state_p, ret,
                 released, peak>>

\* Init without its assertion: a call when inited is already true runs the
\* assignments of lines 103-120 again.
ThreadState_Init_Again ==
  /\ proc = "running"
  /\ inited = TRUE
  /\ next_id' = 0
  /\ thread_state_head_p' = Null
  /\ UNCHANGED <<inited, proc, heap, live, thread_state_key, pc,
                 thread_state_p, ret, released, peak>>

\* A call of Init when inited is already true: the assertion fails.
ThreadState_Init_AssertFails ==
  /\ proc = "running"
  /\ inited = TRUE
  /\ proc' = "aborted"
  /\ UNCHANGED <<inited, next_id, thread_state_head_p, heap, live,
                 thread_state_key, pc, thread_state_p, ret, released, peak>>

\* ------------------------------------------------------- thread lifecycle
\* A new thread starts: its thread-specific value under the key is NULL.
ThreadStart(t) ==
  /\ proc = "running"
  /\ ~live[t]
  /\ live' = [live EXCEPT ![t] = TRUE]
  /\ thread_state_key' = [thread_state_key EXCEPT ![t] = Null]
  /\ peak' = Max(peak, NumLive + 1)
  /\ UNCHANGED <<globals, heap, pc, thread_state_p, ret, released>>

\* ClearOwnedFlag clearing the flag of every slot instead of the one passed.
ClearOwnedFlag_All(data) == [a \in DOMAIN owned |-> Clear]

\* ClearOwnedFlag(data): thread_state_p->owned.clear() on the slot passed.
ClearOwnedFlag(data) == [owned EXCEPT ![data] = Clear]

\* ThreadExit with a release that also unlinks the slot when it is the head.
ThreadExit_Unlinks(t) ==
  /\ proc = "running"
  /\ live[t]
  /\ pc[t] = "idle"
  /\ live' = [live EXCEPT ![t] = FALSE]
  /\ thread_state_key' = [thread_state_key EXCEPT ![t] = Null]
  /\ IF thread_state_key[t] # Null
     THEN /\ owned' = ClearOwnedFlag(thread_state_key[t])
          /\ released' = thread_state_key[t]
          /\ thread_state_head_p' =
               IF thread_state_head_p = thread_state_key[t]
               THEN next_p[thread_state_key[t]] ELSE thread_state_head_p
     ELSE UNCHANGED <<owned, released, thread_state_head_p>>
  /\ thread_state_p' = [thread_state_p EXCEPT ![t] = Null]
  /\ ret' = [ret EXCEPT ![t] = NoValue]
  /\ UNCHANGED <<inited, proc, next_id, id, next_p, gc_p, pc, peak>>

\* A thread exits.  pthread runs the destructor registered with the key,
\* ClearOwnedFlag, on the thread's value when that value is not NULL, after
\* setting the value to NULL.
ThreadExit(t) ==
  /\ proc = "running"
  /\ live[t]
  /\ pc[t] = "idle"
  /\ live' = [live EXCEPT ![t] = FALSE]
  /\ thread_state_key' = [thread_state_key EXCEPT ![t] = Null]
  /\ IF thread_state_key[t] # Null
     THEN /\ owned' = ClearOwnedFlag(thread_state_key[t])
          /\ released' = thread_state_key[t]
     ELSE UNCHANGED <<owned, released>>
  /\ thread_state_p' = [thread_state_p EXCEPT ![t] = Null]
  /\ ret' = [ret EXCEPT ![t] = NoValue]
  /\ UNCHANGED <<globals, id, next_p, gc_p, pc, peak>>

\* ------------------------------------ ThreadState::GetCurrentThreadState
\* A live thread calls GetCurrentThreadState(); the key the function reads
\* exists once Init has created it.
Call(t) ==
  /\ proc = "running"
  /\ inited
  /\ live[t]
  /\ pc[t] = "idle"
  /\ pc' = [pc EXCEPT ![t] = "get"]
  /\ UNCHANGED <<globals, heap, live, thread_state_key, thread_state_p, ret,
                 released, peak>>

\* GetSpecific without the test of line 149: the walk starts even when the
\* thread already has a registered object.
GetSpecific_NoCache(t) ==
  /\ proc = "running"
  /\ pc[t] = "get"
  /\ pc' = [pc EXCEPT ![t] = "head"]
  /\ UNCHANGED <<globals, heap, live, thread_state_key, thread_state_p, ret,
                 released, peak>>

\* Lines 145-151: thread_state_p = pthread_getspecific(key); return it when
\* it is not null.
GetSpecific(t) ==
  /\ proc = "running"
  /\ pc[t] = "get"
  /\ IF thread_state_key[t] # Null
     THEN /\ ret' = [ret EXCEPT ![t] = thread_state_key[t]]
          /\ pc' = [pc EXCEPT ![t] = "idle"]
     ELSE /\ pc' = [pc EXCEPT ![t] = "head"]
          /\ UNCHANGED ret
  /\ UNCHANGED <<globals, heap, live, thread_state_key, thread_state_p,
                 released, peak>>

\* Line 154: thread_state_p = thread_state_head_p.
ReadHead(t) ==
  /\ proc = "running"
  /\ pc[t] = "head"
  /\ thread_state_p' = [thread_state_p EXCEPT ![t] = thread_state_head_p]
  /\ pc' = [pc EXCEPT ![t] = "while"]
  /\ UNCHANGED <<globals, heap, live, thread_state_key, ret, released, peak>>

\* Line 155: while(thread_state_p != nullptr).
WhileTest(t) ==
  /\ proc = "running"
  /\ pc[t] = "while"
  /\ pc' = [pc EXCEPT ![t] = IF thread_state_p[t] # Null THEN "tas" ELSE "alloc"]
  /\ UNCHANGED <<globals, heap, live, thread_state_key, thread_state_p, ret,
                 released, peak>>

\* TestAndSet without the logical not of line 159: the claim "succeeds" when
\* the flag was already set.
TestAndSet_NoNegation(t) ==
  /\ proc = "running"
  /\ pc[t] = "tas"
  /\ LET ownership_acquired == owned[thread_state_p[t]] = Set
     IN  /\ owned' = [owned EXCEPT ![thread_state_p[t]] = Set]
         /\ pc' = [pc EXCEPT ![t] = IF ownership_acquired THEN "reg" ELSE "while"]
  /\ UNCHANGED <<globals, id, next_p, gc_p, live, thread_state_key,
                 thread_state_p, ret, released, peak>>

\* TestAndSet that undoes its write when the claim fails: the flag of a slot
\* that was already owned is left clear.
TestAndSet_FailedClears(t) ==
  /\ proc = "running"
  /\ pc[t] = "tas"
  /\ LET ownership_acquired == owned[thread_state_p[t]] = Clear
     IN  /\ owned' = [owned EXCEPT ![thread_state_p[t]] =
                        IF ownership_acquired THEN Set ELSE Clear]
         /\ pc' = [pc EXCEPT ![t] = IF ownership_acquired THEN "reg" ELSE "while"]
  /\ UNCHANGED <<globals, id, next_p, gc_p, live, thread_state_key,
                 thread_state_p, ret, released, peak>>

\* Lines 159-162: ownership_acquired = !thread_state_p->owned.test_and_set().
\* The flag is read and set in one atomic step.  When the flag was already
\* set the body ends and the loop tests the same thread_state_p again: the
\* loop has no statement that moves thread_state_p to next_p.
TestAndSet(t) ==
  /\ proc = "running"
  /\ pc[t] = "tas"
  /\ LET ownership_acquired == owned[thread_state_p[t]] = Clear
     IN  /\ owned' = [owned EXCEPT ![thread_state_p[t]] = Set]
         /\ pc' = [pc EXCEPT ![t] = IF ownership_acquired THEN "reg" ELSE "while"]
  /\ UNCHANGED <<globals, id, next_p, gc_p, live, thread_state_key,
                 thread_state_p, ret, released, peak>>

\* The return of line 164 without the pthread_setspecific of line 163.
SetSpecific_NotRegistered(t) ==
  /\ proc = "running"
  /\ pc[t] = "reg"
  /\ ret' = [ret EXCEPT ![t] = thread_state_p[t]]
  /\ thread_state_p' = [thread_state_p EXCEPT ![t] = Null]
  /\ pc' = [pc EXCEPT ![t] = "idle"]
  /\ UNCHANGED <<globals, heap, live, thread_state_key, released, peak>>

\* Lines 163-164: pthread_setspecific(key, thread_state_p); return it.
SetSpecific(t) ==
  /\ proc = "running"
  /\ pc[t] = "reg"
  /\ thread_state_key' = [thread_state_key EXCEPT ![t] = thread_state_p[t]]
  /\ ret' = [ret EXCEPT ![t] = thread_state_p[t]]
  /\ thread_state_p' = [thread_state_p EXCEPT ![t] = Null]
  /\ pc' = [pc EXCEPT ![t] = "idle"]
  /\ UNCHANGED <<globals, heap, live, released, peak>>

\* Line 170: thread_state_p = CACHE_ALIGNED_ALLOC(sizeof(ThreadState)), malloc
\* succeeding.  The memory is not initialised and no field of the new object
\* is written: nothing links the object into the list, sets its flag, draws
\* an id from next_id or registers it with pthread.
Alloc(t) ==
  /\ proc = "running"
  /\ pc[t] = "alloc"
  /\ Len(id) < MaxHeap
  /\ id' = Append(id, Indeterminate)
  /\ owned' = Append(owned, Indeterminate)
  /\ next_p' = Append(next_p, Indeterminate)
  /\ gc_p' = Append(gc_p, Indeterminate)
  /\ thread_state_p' = [thread_state_p EXCEPT ![t] = Len(id) + 1]
  /\ pc' = [pc EXCEPT ![t] = "end"]
  /\ UNCHANGED <<globals, live, thread_state_key, ret, released, peak>>

\* Line 170 with malloc returning NULL: the macro rounds (0 + 63) down to a
\* multiple of 64, which is the null pointer; nothing tests it.
AllocFails(t) ==
  /\ proc = "running"
  /\ pc[t] = "alloc"
  /\ thread_state_p' = [thread_state_p EXCEPT ![t] = Null]
  /\ pc' = [pc EXCEPT ![t] = "end"]
  /\ UNCHANGED <<globals, heap, live, thread_state_key, ret, released, peak>>

\* Line 171: control flows off the end of a function returning ThreadState *
\* without a return statement: undefined behaviour.  The build either hands
\* the caller some pointer-sized value (the local, null, any address) ...
FallOffEnd(t) ==
  /\ proc = "running"
  /\ pc[t] = "end"
  /\ \E r \in {Null} \cup Heap : ret' = [ret EXCEPT ![t] = r]
  /\ thread_state_p' = [thread_state_p EXCEPT ![t] = Null]
  /\ pc' = [pc EXCEPT ![t] = "idle"]
  /\ UNCHANGED <<globals, heap, live, thread_state_key, released, peak>>

\* ... or traps (the compiler treats the end of the function as unreachable).
FallOffEndTraps(t) ==
  /\ proc = "running"
  /\ pc[t] = "end"
  /\ proc' = "crashed"
  /\ UNCHANGED <<inited, next_id, thread_state_head_p, heap, live,
                 thread_state_key, pc, thread_state_p, ret, released, peak>>

\* ------------------------------------------- ThreadState::EnterCritical
\* A live thread calls EnterCritical() on its registered object.
CallEnterCritical(t) ==
  /\ proc = "running"
  /\ live[t]
  /\ pc[t] = "idle"
  /\ thread_state_key[t] # Null
  /\ pc' = [pc EXCEPT ![t] = "enter"]
  /\ UNCHANGED <<globals, heap, live, thread_state_key, thread_state_p, ret,
                 released, peak>>

\* Lines 128-130: the body of EnterCritical is empty; the call returns.
EnterCritical(t) ==
  /\ proc = "running"
  /\ pc[t] = "enter"
  /\ pc' = [pc EXCEPT ![t] = "idle"]
  /\ UNCHANGED <<globals, heap, live, thread_state_key, thread_state_p, ret,
                 released, peak>>

\* The steps of thread t inside GetCurrentThreadState.
CallStep(t) ==
  \/ GetSpecific(t)
  \/ ReadHead(t)
  \/ WhileTest(t)
  \/ TestAndSet(t)
  \/ SetSpecific(t)
  \/ Alloc(t)
  \/ AllocFails(t)
  \/ FallOffEnd(t)
  \/ FallOffEndTraps(t)

Next ==
  \/ ThreadState_Init
  \/ ThreadState_Init_KeyCreateFails
  \/ ThreadState_Init_AssertFails
  \/ \E t \in Threads : ThreadStart(t)
  \/ \E t \in Threads : ThreadExit(t)
  \/ \E t \in Threads : Call(t)
  \/ \E t \in Threads : CallStep(t)
  \/ \E t \in Threads : CallEnterCritical(t)
  \/ \E t \in Threads : EnterCritical(t)

Spec == Init /\ [][Next]_vars

\* Every thread that is inside GetCurrentThreadState keeps being scheduled;
\* nothing obliges a thread to start, to call, or to exit.
FairSpec == Spec /\ \A t \in Threads : WF_vars(CallStep(t))

\* The schedules in which a call of a member function runs alone: while one
\* thread is inside a call no other thread starts, calls or exits.
Quiet == \A u \in Threads : pc[u] = "idle"

SoloNext ==
  \/ Quiet /\ ThreadState_Init
  \/ Quiet /\ ThreadState_Init_KeyCreateFails
  \/ Quiet /\ ThreadState_Init_AssertFails
  \/ \E t \in Threads : Quiet /\ ThreadStart(t)
  \/ \E t \in Threads : Quiet /\ ThreadExit(t)
  \/ \E t \in Threads : Quiet /\ Call(t)
  \/ \E t \in Threads : CallStep(t)
  \/ \E t \in Threads : Quiet /\ CallEnterCritical(t)
  \/ \E t \in Threads : EnterCritical(t)

SoloFairSpec ==
  Init /\ [][SoloNext]_vars /\ \A t \in Threads : WF_vars(CallStep(t))

TypeOK ==
  /\ inited \in BOOLEAN
  /\ proc \in {"running", "exited", "aborted", "crashed"}
  /\ next_id \in Nat
  /\ thread_state_head_p \in {Null} \cup Heap
  /\ Len(owned) = Len(id) /\ Len(next_p) = Len(id) /\ Len(gc_p) = Len(id)
  /\ Len(id) <= Max(MaxHeap, MaxInitSlots)
  /\ \A a \in Heap : /\ owned[a] \in {Set, Clear, Indeterminate}
                     /\ id[a] \in Nat \cup {Indeterminate}
                     /\ next_p[a] \in {Null, Indeterminate} \cup Heap
                     /\ gc_p[a] \in {Null, Indeterminate} \cup Heap
  /\ live \in [Threads -> BOOLEAN]
  /\ thread_state_key \in [Threads -> {Null} \cup Heap]
  /\ thread_state_p \in [Threads -> {Null} \cup Heap]
  /\ ret \in [Threads -> {NoValue, Null} \cup Heap]
  /\ released \in {Null} \cup Heap
  /\ peak \in 0..Max(NumThreads, MaxInitSlots)

\* ================================================================= claims
\* The slot thread t holds: the one registered under the key, or the one its
\* test_and_set has just claimed and line 163 is about to register.
Holder(t) ==
  IF thread_state_key[t] # Null THEN thread_state_key[t]
  ELSE IF pc[t] = "reg" THEN thread_state_p[t]
  ELSE Null

\* The first slot, in list order, whose owned flag is clear (Null if none).
FirstUnowned ==
  LET free == {i \in 1..Len(SlotList) : owned[SlotList[i]] = Clear}
  IN  IF free = {} THEN Null
      ELSE SlotList[CHOOSE i \in free : \A j \in free : i <= j]

\* C1: under every interleaving of GetCurrentThreadState calls and thread
\* exits, no slot is held by two live threads at the same time.
C1_NoSlotHeldTwice ==
  \A t, u \in Threads :
    (t # u /\ Holder(t) # Null) => Holder(t) # Holder(u)

\* C1 witness: two threads raced for the same unowned slot; the test_and_set
\* of one has claimed it while the other is about to test_and_set it.
C1_Witness ==
  \E t, u \in Threads :
    /\ t # u
    /\ pc[t] = "reg" /\ pc[u] = "tas"
    /\ thread_state_p[t] = thread_state_p[u]
    /\ owned[thread_state_p[t]] = Set

\* The statements of the walk of the slot list (lines 154-166).
InWalk(t) == pc[t] \in {"head", "while", "tas"}

C4_NewSlotLinkedOwnedBound ==
  [][\A t \in Threads :
       (pc[t] = "end" /\ pc'[t] = "idle" /\ thread_state_p[t] # Null) =>
         /\ ret'[t] = thread_state_p[t]
         /\ thread_state_p[t] \in InList'
         /\ owned'[thread_state_p[t]] = Set
         /\ thread_state_key'[t] = thread_state_p[t]]_vars

\* C5: no allocated slot is lost: whenever no call of GetCurrentThreadState
\* is in progress, every slot that was allocated is reachable from the head
\* of the list.
C5_NoSlotLost ==
  (\A t \in Threads : pc[t] = "idle") => Heap \subseteq InList

\* C6: once a thread has a registered object, it keeps that object until it
\* exits, and every later call of GetCurrentThreadState by it returns at the
\* test of line 149 with that same object and changes nothing: no owned
\* flag, no id or link, not the list head, not the id counter; the call
\* never enters the walk or the allocation (the thread is outside any call,
\* at the test of line 149, or inside EnterCritical).
C6_StablePerThread ==
  [][\A t \in Threads :
       (thread_state_key[t] # Null /\ live'[t]) =>
         /\ thread_state_key'[t] = thread_state_key[t]
         /\ pc[t] \in {"idle", "get", "enter"}
         /\ (pc[t] = "get" /\ pc'[t] # "get") =>
              /\ pc'[t] = "idle"
              /\ ret'[t] = thread_state_key[t]
              /\ UNCHANGED <<owned, id, next_p, thread_state_head_p, next_id>>]_vars

\* C6 witness: a thread whose earlier call returned its registered object is
\* inside a later call, at the test of the registered object.
C6_Witness ==
  \E t \in Threads :
    /\ live[t] /\ pc[t] = "get"
    /\ thread_state_key[t] # Null
    /\ ret[t] = thread_state_key[t]

C8_ListOnlyGrows == [][InList \subseteq InList']_vars

\* C8 witness: a slot of a list of two has been released by a thread exit,
\* another slot is owned, and both are still in the list.
C8_Witness ==
  /\ Len(SlotList) >= 2
  /\ released \in InList /\ owned[released] = Clear
  /\ \E a \in InList : owned[a] = Set

\* C9: slot reuse bounds the registry by the peak number of threads alive at
\* the same time: the list never holds more slots than that, and no more
\* slots than that were ever created (threads that start and exit one after
\* another reuse one slot instead of each adding one).
C9_SlotsBoundedByPeak ==
  /\ Cardinality(InList) <= peak
  /\ Len(id) <= peak

\* C10: every slot has the id it drew from next_id when it was created: the
\* id is a value the counter has handed out and no two slots share an id.
C10_IdsFromCounter ==
  \A a \in Heap :
    /\ id[a] # Indeterminate
    /\ id[a] < next_id
    /\ \A b \in Heap \ {a} : id[a] # id[b]

\* C11: a failed slot allocation is fatal: the step of GetCurrentThreadState
\* in which the allocation fails (the call leaves line 170 without a new
\* object on the heap) terminates the process, so the call goes no further
\* with the failed slot.
C11_AllocFailureIsFatal ==
  [][\A t \in Threads :
       (pc[t] = "alloc" /\ pc'[t] # "alloc" /\ Len(id') = Len(id))
         => proc' # "running"]_vars

\* Everything slot a stores: the four data members of ThreadState (the
\* GCState that gc_p points to has no member).
Slot(a) == <<id[a], owned[a], next_p[a], gc_p[a]>>

\* C12: EnterCritical changes the calling thread's slot: when the call
\* returns, the slot of the caller differs from what it was before the call
\* (it now records that the thread is inside a critical section, with the
\* epoch seen at entry).
C12_EnterCriticalMarksSlot ==
  [][\A t \in Threads :
       (pc[t] = "enter" /\ pc'[t] = "idle")
         => Slot(thread_state_key[t])' # Slot(thread_state_key[t])]_vars

\* C17: Init is single-shot. A call that starts with inited false and
\* returns leaves next_id = 0, the list empty and inited true; once inited
\* is true no step sets it back to false, and no step (a second call of
\* Init in particular, which ends in the failed assertion) resets the id
\* counter to 0 or the list head to null.
C17_InitSingleShot ==
  [][/\ (~inited /\ globals' # globals /\ proc' = "running")
          => (inited' /\ next_id' = 0 /\ thread_state_head_p' = Null)
     /\ inited => inited'
     /\ (inited /\ next_id # 0) => next_id' # 0
     /\ (inited /\ thread_state_head_p # Null) => thread_state_head_p' # Null
     /\ (inited /\ proc' = "aborted")
          => UNCHANGED <<inited, next_id, thread_state_head_p, heap>>]_vars

\* C17 witness: Init was called a second time on a registry that has slots
\* and has handed out ids: the assertion failed and the counter and the
\* list are still there.
C17_Witness ==
  /\ inited /\ proc = "aborted"
  /\ next_id # 0 /\ thread_state_head_p # Null

\* Every live thread's registered slot has its owned flag set.
BoundSlotsOwned ==
  \A t \in Threads :
    (live[t] /\ thread_state_key[t] # Null) => owned[thread_state_key[t]] = Set

\* C18: in every reachable state the slot a live thread holds as its
\* thread-local binding has its owned flag set; the flag is already set when
\* the binding is registered, and a set flag is cleared only in the step in
\* which the thread bound to that slot exits, never by a step of another
\* thread's GetCurrentThreadState.
C18_BoundSlotStaysOwned ==
  /\ BoundSlotsOwned
  /\ [][/\ BoundSlotsOwned'
        /\ \A t \in Threads :
             (thread_state_key[t] = Null /\ thread_state_key'[t] # Null)
               => owned[thread_state_key'[t]] = Set
        /\ \A a \in Heap :
             (owned[a] = Set /\ owned'[a] = Clear)
               => \E t \in Threads : /\ live[t] /\ ~live'[t]
                                     /\ thread_state_key[t] = a]_vars

\* C18 witness: a slot released by a thread exit was claimed again by the
\* test-and-set of a walk; the thread bound to it is idle with the flag
\* set, while another thread is in the walk on that same slot.
C18_Witness ==
  \E t, u \in Threads :
    /\ t # u
    /\ released # Null
    /\ live[t] /\ pc[t] = "idle" /\ thread_state_key[t] = released
    /\ owned[released] = Set
    /\ pc[u] = "while" /\ thread_state_p[u] = released

\* No thread is inside GetCurrentThreadState.
NoAcquireInProgress == \A t \in Threads : pc[t] \in {"idle", "enter"}

\* The live threads whose registered object is slot a.
BoundTo(a) == {t \in Threads : live[t] /\ thread_state_key[t] = a}

\* C19: ownership never leaks. Whenever no call of GetCurrentThreadState is
\* in progress, every slot of the list whose owned flag is set is the
\* registered object of exactly one live thread (so with no live thread
\* every slot of the list is unowned); a call goes to the allocation only
\* when the list has no slot; and a call made by a thread without a slot
\* while the list has slots and all of them are unowned leads to a slot of
\* the list being bound, unless the process stops first.
C19_OwnershipNeverLeaks ==
  /\ [](NoAcquireInProgress
          => \A a \in InList : owned[a] = Set => Cardinality(BoundTo(a)) = 1)
  /\ [][\A t \in Threads :
          (pc[t] = "while" /\ pc'[t] = "alloc") => InList = {}]_vars
  /\ (\E t \in Threads :
         /\ pc[t] = "get" /\ thread_state_key[t] = Null
         /\ InList # {} /\ \A a \in InList : owned[a] = Clear)
       ~> (\/ \E a \in InList : BoundTo(a) # {}
           \/ proc # "running")

\* C19 witness: every thread had exited, leaving the slot last released and
\* every other slot of the list unowned; now one thread is alive, it has
\* called and is bound to the released slot, and all other slots of the
\* list are still unowned.
C19_Witness ==
  /\ NoAcquireInProgress
  /\ released # Null /\ released \in InList
  /\ Cardinality(InList) >= 2
  /\ NumLive = 1
  /\ BoundTo(released) # {}
  /\ \A a \in InList \ {released} : owned[a] = Clear
====
